---- MODULE Spec2Model ----
(***************************************************************************)
(* Model of the goo new-listing scraper: src/scrape.py (the current        *)
(* script) and src/fetch_april_properties.py (the older variant writing    *)
(* to the same sheet).                                                     *)
(*                                                                         *)
(* Strings are sequences of characters; a character is written as a short  *)
(* ASCII code:                                                             *)
(*   "SP" space, "TAB" "CR" "LF" control whitespace, "IDEO" U+3000,        *)
(*   "FW0".."FW9" full-width digits, "SQM" the one-character unit sign     *)
(*   U+33A1, "SUP2" superscript two, "WAVE" the full-width wave dash,      *)
(*   "DOT" the middle dot U+30FB, "ONEROOM" the katakana word for studio,  *)
(*   and so on.  Everything else is the character itself.                  *)
(***************************************************************************)
EXTENDS Integers, Sequences, FiniteSets, TLC

VARIABLES
    \* _sanitize_cell applied once and twice
    sx, sy, sz, spc,
    \* _normalize_layout
    lraw, lout, lpc,
    \* _normalize_area and the area cell of write_to_sheet
    araw, aout, acell, apc,
    \* get_official_url
    attempt, responses, sleeps, res, result, upc,
    \* the pipeline: main -> fetch -> write_to_sheet, and the sheet
    sheet, urls, run, pc, idx, properties, seen_names, existing,
    rows_to_append, new_count, outcome, sheet0, failedRuns

sanVars == <<sx, sy, sz, spc>>
layVars == <<lraw, lout, lpc>>
areaVars == <<araw, aout, acell, apc>>
urlVars == <<attempt, responses, sleeps, res, result, upc>>
pipeVars == <<sheet, urls, run, pc, idx, properties, seen_names, existing,
              rows_to_append, new_count, outcome, sheet0, failedRuns>>
vars == <<sanVars, layVars, areaVars, urlVars, pipeVars>>

----------------------------------------------------------------------------
(* Bounds *)
MaxSanLen == 5
MaxLayoutTokens == 3
MaxAreaTokens == 3
MaxItems == 2
MaxBatch == 2
MaxRuns == 2

----------------------------------------------------------------------------
(* Sequence helpers *)

SeqsUpTo(S, n) == UNION {[1..k -> S] : k \in 0..n}

RECURSIVE Flatten(_)
Flatten(ss) == IF ss = <<>> THEN <<>> ELSE Head(ss) \o Flatten(Tail(ss))

Contains(s, c) == \E k \in 1..Len(s) : s[k] = c

\* the characters Python's \s and str.strip() treat as whitespace
Whitespace == {"SP", "TAB", "CR", "LF", "IDEO"}
IsSpace(c) == c \in Whitespace

RECURSIVE LStrip(_)
LStrip(s) == IF s # <<>> /\ IsSpace(Head(s)) THEN LStrip(Tail(s)) ELSE s

RECURSIVE RStrip(_)
RStrip(s) ==
    IF s # <<>> /\ IsSpace(s[Len(s)]) THEN RStrip(SubSeq(s, 1, Len(s) - 1)) ELSE s

Strip(s) == RStrip(LStrip(s))

\* length of the maximal run of characters of class C at the front of s
RECURSIVE RunLen(_, _)
RunLen(s, C) == IF s # <<>> /\ Head(s) \in C THEN 1 + RunLen(Tail(s), C) ELSE 0

Drop(s, n) == SubSeq(s, n + 1, Len(s))
Take(s, n) == SubSeq(s, 1, n)

\* re.sub(r"[C]{min,}", " ", s): each maximal run of at least min characters
\* of class C becomes one space
RECURSIVE SubRuns(_, _, _)
SubRuns(s, C, min) ==
    IF s = <<>> THEN <<>>
    ELSE LET n == RunLen(s, C) IN
         IF n >= min /\ n > 0 THEN <<"SP">> \o SubRuns(Drop(s, n), C, min)
         ELSE IF n > 0 THEN Take(s, n) \o SubRuns(Drop(s, n), C, min)
         ELSE <<Head(s)>> \o SubRuns(Tail(s), C, min)

----------------------------------------------------------------------------
(* _sanitize_cell, src/scrape.py 162-168.  A value is [isNone, str]. *)

None == [isNone |-> TRUE, str |-> <<>>]
Str(s) == [isNone |-> FALSE, str |-> s]

\* the two substitutions without the final strip()
SanitizeNoStrip(x) ==
    IF x.isNone THEN <<>>
    ELSE SubRuns(SubRuns(x.str, {"TAB", "CR", "LF"}, 1), Whitespace, 2)

_sanitize_cell(x) ==
    IF x.isNone THEN <<>>
    ELSE Strip(SubRuns(SubRuns(x.str, {"TAB", "CR", "LF"}, 1), Whitespace, 2))

SanChars == {"a", "SP", "TAB", "CR", "LF", "IDEO"}

SanIdle == /\ sx = None /\ sy = <<>> /\ sz = <<>> /\ spc = "off"

SanInit ==
    /\ sx \in {None} \cup {Str(s) : s \in SeqsUpTo(SanChars, MaxSanLen)}
    /\ sy = <<>> /\ sz = <<>> /\ spc = "start"

SanitizeOnce ==
    /\ spc = "start"
    /\ sy' = _sanitize_cell(sx)
    /\ spc' = "once"
    /\ UNCHANGED <<sx, sz, layVars, areaVars, urlVars, pipeVars>>

SanitizeAgain ==
    /\ spc = "once"
    /\ sz' = _sanitize_cell(Str(sy))
    /\ spc' = "twice"
    /\ UNCHANGED <<sx, sy, layVars, areaVars, urlVars, pipeVars>>

----------------------------------------------------------------------------
(* Numbers *)

AsciiDigits == {"0", "1", "2", "3", "4", "5", "6", "7", "8", "9"}
FullWidthDigits ==
    {"FW0", "FW1", "FW2", "FW3", "FW4", "FW5", "FW6", "FW7", "FW8", "FW9"}

\* str.maketrans of the full-width digits to the half-width ones
HalfWidth(c) ==
    CASE c = "FW0" -> "0" [] c = "FW1" -> "1" [] c = "FW2" -> "2"
      [] c = "FW3" -> "3" [] c = "FW4" -> "4" [] c = "FW5" -> "5"
      [] c = "FW6" -> "6" [] c = "FW7" -> "7" [] c = "FW8" -> "8"
      [] c = "FW9" -> "9" [] OTHER -> c

DigitVal(c) ==
    CASE HalfWidth(c) = "0" -> 0 [] HalfWidth(c) = "1" -> 1
      [] HalfWidth(c) = "2" -> 2 [] HalfWidth(c) = "3" -> 3
      [] HalfWidth(c) = "4" -> 4 [] HalfWidth(c) = "5" -> 5
      [] HalfWidth(c) = "6" -> 6 [] HalfWidth(c) = "7" -> 7
      [] HalfWidth(c) = "8" -> 8 [] HalfWidth(c) = "9" -> 9

DigitChar(d) ==
    CASE d = 0 -> "0" [] d = 1 -> "1" [] d = 2 -> "2" [] d = 3 -> "3"
      [] d = 4 -> "4" [] d = 5 -> "5" [] d = 6 -> "6" [] d = 7 -> "7"
      [] d = 8 -> "8" [] d = 9 -> "9"

\* int(s) for a string of digits
RECURSIVE ToInt(_)
ToInt(s) ==
    IF s = <<>> THEN 0
    ELSE 10 * ToInt(Take(s, Len(s) - 1)) + DigitVal(s[Len(s)])

\* str(n) for a natural number
RECURSIVE IntToStr(_)
IntToStr(n) ==
    IF n < 10 THEN <<DigitChar(n)>>
    ELSE IntToStr(n \div 10) \o <<DigitChar(n % 10)>>

----------------------------------------------------------------------------
(* _normalize_layout, src/scrape.py 89-118 *)

\* str.upper() on the letters of the room types; "KELVIN" is U+212A, the
\* Kelvin sign, an upper-case letter that str.upper() leaves as it is
Upper(c) ==
    CASE c = "l" -> "L" [] c = "d" -> "D" [] c = "k" -> "K" [] c = "r" -> "R"
      [] OTHER -> c

UpperStr(s) == [k \in 1..Len(s) |-> Upper(s[k])]

\* the letter c stands for under flags=re.I: the pattern letter K matches
\* k, K and U+212A, whose lower case is k
Fold(c) == IF c = "KELVIN" THEN "K" ELSE Upper(c)

FoldStr(s) == [k \in 1..Len(s) |-> Fold(s[k])]

\* the alternation (LDK|DK|K|R) with re.I at the front of s: the matched
\* text, or <<>> when none of the alternatives matches
MatchType(s) ==
    LET u == FoldStr(s) IN
    IF Len(u) >= 3 /\ Take(u, 3) = <<"L", "D", "K">> THEN Take(s, 3)
    ELSE IF Len(u) >= 2 /\ Take(u, 2) = <<"D", "K">> THEN Take(s, 2)
    ELSE IF Len(u) >= 1 /\ u[1] \in {"K", "R"} THEN Take(s, 1)
    ELSE <<>>

\* re.findall(r"([0-9FW0-FW9]+)\s*(LDK|DK|K|R)", txt, flags=re.I)
RECURSIVE LayoutHits(_)
LayoutHits(s) ==
    IF s = <<>> THEN <<>>
    ELSE LET nd == RunLen(s, AsciiDigits \cup FullWidthDigits)
             ns == RunLen(Drop(s, nd), Whitespace)
             ty == MatchType(Drop(s, nd + ns))
         IN  IF nd > 0 /\ ty # <<>>
             THEN <<[num |-> Take(s, nd), typ |-> ty]>>
                  \o LayoutHits(Drop(s, nd + ns + Len(ty)))
             ELSE LayoutHits(Tail(s))

\* lines 99-103: (int(num), typ.upper())
LayoutItems(hits) ==
    [k \in 1..Len(hits) |->
        [n |-> ToInt(hits[k].num), t |-> UpperStr(hits[k].typ)]]

\* line 108: order.get(typ, 99)
TypeRank(t) ==
    CASE t = <<"R">> -> 0 [] t = <<"K">> -> 1 [] t = <<"D", "K">> -> 2
      [] t = <<"L", "D", "K">> -> 3 [] OTHER -> 99

\* the sort key of line 109, compared as Python compares tuples
LayoutKeyLE(a, b) ==
    \/ a.n < b.n
    \/ a.n = b.n /\ TypeRank(a.t) <= TypeRank(b.t)

\* sorted(): stable insertion of x into the sorted list s
RECURSIVE InsertSorted(_, _)
InsertSorted(s, x) ==
    IF s = <<>> THEN <<x>>
    ELSE IF LayoutKeyLE(Head(s), x) THEN <<Head(s)>> \o InsertSorted(Tail(s), x)
    ELSE <<x>> \o s

RECURSIVE Sorted(_)
Sorted(s) ==
    IF s = <<>> THEN <<>>
    ELSE InsertSorted(Sorted(Take(s, Len(s) - 1)), s[Len(s)])

\* f"{n}{t}"
LayoutKey(it) == IntToStr(it.n) \o it.t

\* lines 111-117: keep the first occurrence of every key
RECURSIVE DedupKeys(_, _)
DedupKeys(s, seen) ==
    IF s = <<>> THEN <<>>
    ELSE IF LayoutKey(Head(s)) \in seen THEN DedupKeys(Tail(s), seen)
    ELSE <<LayoutKey(Head(s))>>
         \o DedupKeys(Tail(s), seen \cup {LayoutKey(Head(s))})

\* "DOT".join(out)
RECURSIVE Join(_, _)
Join(parts, sep) ==
    IF parts = <<>> THEN <<>>
    ELSE IF Len(parts) = 1 THEN parts[1]
    ELSE parts[1] \o sep \o Join(Tail(parts), sep)

\* .replace(IDEO, " ")
ReplaceChar(s, from, to) ==
    [k \in 1..Len(s) |-> IF s[k] = from THEN to ELSE s[k]]

_normalize_layout(raw) ==
    LET txt == ReplaceChar(raw, "IDEO", "SP")
        items == LayoutItems(LayoutHits(txt))
    IN  IF items = <<>> /\ Contains(txt, "ONEROOM") THEN <<"ONEROOM">>
        ELSE Join(DedupKeys(Sorted(items), {}), <<"DOT">>)

LayoutNumbersIn == { <<"1">>, <<"2">>, <<"FW1">> }
LayoutTypesIn ==
    { <<"L", "D", "K">>, <<"D", "K">>, <<"K">>, <<"R">>, <<"k">>, <<"KELVIN">> }
LayoutTokens ==
    {n \o t : n \in LayoutNumbersIn, t \in LayoutTypesIn}
    \cup LayoutNumbersIn
    \cup { <<"K">>, <<"S">>, <<"SP">>, <<"DOT">>, <<"ONEROOM">> }

LayIdle == /\ lraw = <<>> /\ lout = <<>> /\ lpc = "off"

LayInit ==
    /\ lraw \in {Flatten(ts) : ts \in SeqsUpTo(LayoutTokens, MaxLayoutTokens)}
    /\ lout = <<>> /\ lpc = "start"

NormalizeLayout ==
    /\ lpc = "start"
    /\ lout' = _normalize_layout(lraw)
    /\ lpc' = "done"
    /\ UNCHANGED <<lraw, sanVars, areaVars, urlVars, pipeVars>>

----------------------------------------------------------------------------
(* _normalize_area, src/scrape.py 120-160 *)

Digits == AsciiDigits \cup FullWidthDigits

\* str.replace(old, new) for a non-empty old
RECURSIVE Replace(_, _, _)
Replace(s, old, new) ==
    IF Len(s) < Len(old) THEN s
    ELSE IF Take(s, Len(old)) = old
         THEN new \o Replace(Drop(s, Len(old)), old, new)
    ELSE <<Head(s)>> \o Replace(Tail(s), old, new)

\* the characters that \w matches (str.isalnum() or "_"); the unit sign,
\* the wave dash, the comma and the ASCII punctuation are not among them
WordChars ==
    Digits \cup {"m", "a", "b", "SUP2", "CHO", "HEIKIN", "ZENGO", "TEIDO"}

\* re.sub(r"m\s*FW2", "m2", s)
RECURSIVE SubMFullWidth2(_)
SubMFullWidth2(s) ==
    IF s = <<>> THEN <<>>
    ELSE LET ns == RunLen(Tail(s), Whitespace) IN
         IF /\ Head(s) = "m"
            /\ Len(s) >= ns + 2
            /\ s[ns + 2] = "FW2"
         THEN <<"m", "2">> \o SubMFullWidth2(Drop(s, ns + 2))
         ELSE <<Head(s)>> \o SubMFullWidth2(Tail(s))

\* re.sub(r"\bm\s*$", "m2", s): an "m" that starts a word and is followed
\* by nothing but whitespace up to the end of the string
SubTrailingM(s) ==
    LET t == RStrip(s) IN
    IF /\ t # <<>>
       /\ t[Len(t)] = "m"
       /\ (Len(t) = 1 \/ t[Len(t) - 1] \notin WordChars)
    THEN Take(t, Len(t) - 1) \o <<"m", "2">>
    ELSE s

\* str.translate of the full-width digits, full stop and minus
TranslateChar(c) ==
    CASE c = "FWSTOP" -> "." [] c = "FWMINUS" -> "-" [] OTHER -> HalfWidth(c)

Translate(s) == [k \in 1..Len(s) |-> TranslateChar(s[k])]

\* re.sub(r"^[FWCOLON:/\-\s]+", "", s)
StripLeadingMarks(s) ==
    Drop(s, RunLen(s, {"FWCOLON", ":", "/", "-"} \cup Whitespace))

ApproxWords == {"CHO", "HEIKIN", "ZENGO", "TEIDO"}

\* re.sub(r"\s*(CHO|HEIKIN|ZENGO|TEIDO)", "", s)
RECURSIVE RemoveApprox(_)
RemoveApprox(s) ==
    IF s = <<>> THEN <<>>
    ELSE LET ns == RunLen(s, Whitespace) IN
         IF Len(s) > ns /\ s[ns + 1] \in ApproxWords
         THEN RemoveApprox(Drop(s, ns + 1))
         ELSE <<Head(s)>> \o RemoveApprox(Tail(s))

\* _to_m2, lines 127-135
_to_m2(s) ==
    LET s1 == Replace(Replace(s, <<"SQM">>, <<"m", "2">>),
                      <<"m", "^", "2">>, <<"m", "2">>)
        s2 == SubMFullWidth2(s1)
        s3 == SubTrailingM(s2)
        s4 == Translate(s3)
        s5 == StripLeadingMarks(s4)
    IN  RemoveApprox(s5)

\* length of the match of \d+(?:\.\d+)? at the front of s, 0 when none
NumberLen(s) ==
    LET nd == RunLen(s, Digits)
        nf == IF Len(s) > nd /\ s[nd + 1] = "."
              THEN RunLen(Drop(s, nd + 1), Digits) ELSE 0
    IN  IF nd = 0 THEN 0 ELSE IF nf > 0 THEN nd + 1 + nf ELSE nd

\* length of the match of (\d+(?:\.\d+)?)\s*m2 at the front of s, 0 when
\* none; what follows a shorter number is a digit or ".", so backtracking
\* into the number never finds a match
AreaValueLen(s) ==
    LET n == NumberLen(s)
        ns == RunLen(Drop(s, n), Whitespace)
        rest == Drop(s, n + ns)
    IN  IF n > 0 /\ Len(rest) >= 2 /\ rest[1] = "m" /\ rest[2] = "2"
        THEN n + ns + 2 ELSE 0

\* re.findall(r"(\d+(?:\.\d+)?)\s*m2", s)
RECURSIVE AreaNumbers(_)
AreaNumbers(s) ==
    IF s = <<>> THEN <<>>
    ELSE LET l == AreaValueLen(s) IN
         IF l > 0 THEN <<Take(s, NumberLen(s))>> \o AreaNumbers(Drop(s, l))
         ELSE AreaNumbers(Tail(s))

NoRange == [found |-> FALSE, a |-> <<>>, b |-> <<>>]

\* the match of num\s*m2\s*WAVE\s*num\s*m2 at the front of s, where r is
\* what follows the first value and its trailing whitespace
RangeFrom(s, r) ==
    IF /\ AreaValueLen(s) > 0
       /\ r # <<>> /\ Head(r) = "WAVE"
       /\ AreaValueLen(LStrip(Tail(r))) > 0
    THEN [found |-> TRUE, a |-> Take(s, NumberLen(s)),
          b |-> Take(LStrip(Tail(r)), NumberLen(LStrip(Tail(r))))]
    ELSE NoRange

RangeAt(s) == RangeFrom(s, LStrip(Drop(s, AreaValueLen(s))))

\* re.search of the range pattern: the leftmost match
RECURSIVE SearchRange(_)
SearchRange(s) ==
    IF s = <<>> THEN NoRange
    ELSE IF RangeAt(s).found THEN RangeAt(s)
    ELSE SearchRange(Tail(s))

\* float(n) of a decimal string: mant / 10^frac
RECURSIVE Pow10(_)
Pow10(k) == IF k = 0 THEN 1 ELSE 10 * Pow10(k - 1)

ToFloat(n) ==
    LET nd == RunLen(n, Digits)
        fr == IF Len(n) > nd THEN Drop(n, nd + 1) ELSE <<>>
    IN  [mant |-> ToInt(Take(n, nd) \o fr), frac |-> Len(fr)]

FloatLE(x, y) == x.mant * Pow10(y.frac) <= y.mant * Pow10(x.frac)

\* sorted(...)[0] and sorted(...)[-1]
MinOf(vs) ==
    vs[CHOOSE i \in 1..Len(vs) : \A j \in 1..Len(vs) : FloatLE(vs[i], vs[j])]
MaxOf(vs) ==
    vs[CHOOSE i \in 1..Len(vs) : \A j \in 1..Len(vs) : FloatLE(vs[j], vs[i])]

RECURSIVE StripTrailingZeros(_)
StripTrailingZeros(s) ==
    IF s # <<>> /\ s[Len(s)] = "0" THEN StripTrailingZeros(Take(s, Len(s) - 1))
    ELSE s

\* the fractional digits of x, padded on the left to x.frac places
RECURSIVE PadLeft(_, _)
PadLeft(s, n) == IF Len(s) >= n THEN s ELSE PadLeft(<<"0">> \o s, n)

\* f"{x:g}" for a value below 10^6 with at most six significant digits,
\* where no rounding and no exponent occurs
FormatG(x) ==
    LET ip == x.mant \div Pow10(x.frac)
        fp == StripTrailingZeros(
                  IF x.frac = 0 THEN <<>>
                  ELSE PadLeft(IntToStr(x.mant % Pow10(x.frac)), x.frac))
    IN  IntToStr(ip) \o (IF fp = <<>> THEN <<>> ELSE <<".">> \o fp)

M2 == <<"m", "2">>

\* the unit the result carries, were it the one-character unit sign
FromNumbersSqm(nums) ==
    LET vals == [k \in 1..Len(nums) |-> ToFloat(nums[k])] IN
    IF Len(nums) >= 2
    THEN FormatG(MinOf(vals)) \o <<"SQM", "WAVE">> \o FormatG(MaxOf(vals))
         \o <<"SQM">>
    ELSE IF Len(nums) = 1 THEN nums[1] \o <<"SQM">>
    ELSE <<>>

\* lines 144-149 and 153-158: the values found, as one value or min-max
FromNumbers(nums) ==
    LET vals == [k \in 1..Len(nums) |-> ToFloat(nums[k])] IN
    IF Len(nums) >= 2
    THEN FormatG(MinOf(vals)) \o M2 \o <<"WAVE">> \o FormatG(MaxOf(vals)) \o M2
    ELSE IF Len(nums) = 1 THEN nums[1] \o M2
    ELSE <<>>

\* lines 139-160, given the range match m and the values nums of txt
AreaPick(m, nums, raw) ==
    IF m.found THEN m.a \o M2 \o <<"WAVE">> \o m.b \o M2
    ELSE IF nums # <<>> THEN FromNumbers(nums)
    ELSE FromNumbers(AreaNumbers(Replace(raw, <<"SQM">>, M2)))

AreaOf(txt, raw) == AreaPick(SearchRange(txt), AreaNumbers(txt), raw)

_normalize_area(raw) == AreaOf(_to_m2(raw), raw)

AreaNumbersIn == { <<"5">>, <<"FW7", "0", ".", "0">> }
AreaUnitsIn ==
    { <<"SQM">>, <<"m", "^", "2">>, <<"m", "FW2">>, <<"SP", "m">>,
      <<"m", "SUP2">>, <<"m", "2">> }
AreaTokens ==
    {n \o u : n \in AreaNumbersIn, u \in AreaUnitsIn}
    \cup AreaNumbersIn \cup { <<"WAVE">>, <<"COMMA">>, <<"CHO">> }

AreaIdle == /\ araw = <<>> /\ aout = <<>> /\ acell = <<>> /\ apc = "off"

AreaInit ==
    /\ araw \in {Flatten(ts) : ts \in SeqsUpTo(AreaTokens, MaxAreaTokens)}
    /\ aout = <<>> /\ acell = <<>> /\ apc = "start"

\* fetch_property_details, line 201
NormalizeArea ==
    /\ apc = "start"
    /\ aout' = _normalize_area(araw)
    /\ apc' = "fetched"
    /\ UNCHANGED <<araw, acell, sanVars, layVars, urlVars, pipeVars>>

\* write_to_sheet, line 336
WriteAreaCell ==
    /\ apc = "fetched"
    /\ acell' = _sanitize_cell(Str(_normalize_area(aout)))
    /\ apc' = "written"
    /\ UNCHANGED <<araw, aout, sanVars, layVars, urlVars, pipeVars>>

----------------------------------------------------------------------------
(* get_official_url, src/scrape.py 283-303 and                             *)
(* src/fetch_april_properties.py 83-100 (the same loop; the sleep is 10 s  *)
(* in the former, 15 s in the latter)                                      *)

\* a loop of one attempt more
AttemptsPlusOne == 4

\* range(3)
Attempts == 3

\* one entry of the "items" list of the search response; ".co.jp" is the
\* two characters ".co", ".jp", so that ".jp" is a substring of it
ItemSet ==
    { [hasLink |-> TRUE, link |-> <<"x", ".co", ".jp">>],
      [hasLink |-> TRUE, link |-> <<"suumo", ".jp">>],
      [hasLink |-> TRUE, link |-> <<"x", ".com">>],
      [hasLink |-> FALSE, link |-> <<>>] }

\* what requests.get can do: raise, or return a status and a body
Responses ==
    { [kind |-> "raise", status |-> 0, json |-> FALSE, items |-> <<>>],
      [kind |-> "http", status |-> 429, json |-> FALSE, items |-> <<>>],
      [kind |-> "http", status |-> 500, json |-> FALSE, items |-> <<>>],
      [kind |-> "http", status |-> 200, json |-> FALSE, items |-> <<>>] }
    \cup { [kind |-> "http", status |-> 200, json |-> TRUE, items |-> its] :
              its \in SeqsUpTo(ItemSet, MaxItems) }

NoResponse == [kind |-> "none", status |-> 0, json |-> FALSE, items |-> <<>>]

\* item.get('link', '')
ItemLink(it) == IF it.hasLink THEN it.link ELSE <<>>

\* line 297
IsOfficial(link) == Contains(link, ".jp") /\ ~Contains(link, "suumo")

\* lines 295-299; raised stands for the KeyError of items[0]['link']
PickLink(items) ==
    IF \E k \in 1..Len(items) : IsOfficial(ItemLink(items[k]))
    THEN [raised |-> FALSE,
          value |-> ItemLink(items[CHOOSE k \in 1..Len(items) :
                       /\ IsOfficial(ItemLink(items[k]))
                       /\ \A j \in 1..(k - 1) : ~IsOfficial(ItemLink(items[j]))])]
    ELSE IF items = <<>> THEN [raised |-> FALSE, value |-> <<>>]
    ELSE IF items[1].hasLink THEN [raised |-> FALSE, value |-> items[1].link]
    ELSE [raised |-> TRUE, value |-> <<>>]

NotReturned == [done |-> FALSE, raised |-> FALSE, value |-> <<>>]
Returned(v) == [done |-> TRUE, raised |-> FALSE, value |-> v]

UrlIdle ==
    /\ attempt = 0 /\ responses = <<>> /\ sleeps = 0 /\ res = NoResponse
    /\ result = NotReturned /\ upc = "off"

UrlInit ==
    /\ attempt = 0 /\ responses = <<>> /\ sleeps = 0 /\ res = NoResponse
    /\ result = NotReturned /\ upc = "loop"

UrlOthers == <<sanVars, layVars, areaVars, pipeVars>>

\* line 285: the next iteration of the for loop
UrlNextAttempt ==
    /\ upc = "loop" /\ attempt < Attempts
    /\ upc' = "get"
    /\ UNCHANGED <<attempt, responses, sleeps, res, result, UrlOthers>>

\* line 303: the loop is exhausted
UrlExhausted ==
    /\ upc = "loop" /\ attempt >= Attempts
    /\ result' = Returned(<<>>)
    /\ upc' = "done"
    /\ UNCHANGED <<attempt, responses, sleeps, res, UrlOthers>>

\* line 287
UrlGet ==
    /\ upc = "get"
    /\ \E r \in Responses :
          /\ res' = r
          /\ responses' = Append(responses, r.status)
          /\ upc' = IF r.kind = "raise" THEN "except" ELSE "status"
    /\ UNCHANGED <<attempt, sleeps, result, UrlOthers>>

\* lines 288-292
Url429 ==
    /\ upc = "status" /\ res.status = 429
    /\ sleeps' = sleeps + 1
    /\ attempt' = attempt + 1
    /\ upc' = "loop"
    /\ UNCHANGED <<responses, res, result, UrlOthers>>

\* line 293: raise_for_status raises on 4xx and 5xx
UrlRaiseForStatus ==
    /\ upc = "status" /\ res.status # 429 /\ res.status >= 400
    /\ upc' = "except"
    /\ UNCHANGED <<attempt, responses, sleeps, res, result, UrlOthers>>

\* lines 294-299
UrlPick ==
    /\ upc = "status" /\ res.status < 400
    /\ IF ~res.json \/ PickLink(res.items).raised
       THEN upc' = "except" /\ UNCHANGED result
       ELSE upc' = "done" /\ result' = Returned(PickLink(res.items).value)
    /\ UNCHANGED <<attempt, responses, sleeps, res, UrlOthers>>

\* lines 300-302
UrlExcept ==
    /\ upc = "except"
    /\ result' = Returned(<<>>)
    /\ upc' = "done"
    /\ UNCHANGED <<attempt, responses, sleeps, res, UrlOthers>>

\* the return values of get_official_url that write_to_sheet is run with:
\* the empty string and one link
OfficialUrlChoices == { <<>>, <<"x", ".co", ".jp">> }

----------------------------------------------------------------------------
(* Titles and names *)

\* the literal prefix of line 230 and the literal tails of lines 231-232:
\* "LB" "GOO" "RB" are the bracketed site name, "LP" "PRICE" "RP" the
\* parenthesised price-and-layout note, "INFO" the property-information tail
SitePrefix == <<"LB", "GOO", "RB">>
PriceNote == <<"LP", "PRICE", "RP">>

IsPrefixOf(p, s) == Len(s) >= Len(p) /\ Take(s, Len(p)) = p

\* re.sub(PriceNote \s* INFO .*$, "", t): cut at the leftmost match
RECURSIVE CutPriceInfo(_)
CutPriceInfo(t) ==
    IF t = <<>> THEN <<>>
    ELSE LET r == Drop(t, 3)
             ns == RunLen(r, Whitespace)
         IN  IF /\ IsPrefixOf(PriceNote, t)
                /\ Len(r) > ns
                /\ r[ns + 1] = "INFO"
             THEN <<>>
             ELSE <<Head(t)>> \o CutPriceInfo(Tail(t))

\* re.sub(\s* INFO .*$, "", t)
RECURSIVE CutInfo(_)
CutInfo(t) ==
    IF t = <<>> THEN <<>>
    ELSE LET ns == RunLen(t, Whitespace) IN
         IF Len(t) > ns /\ t[ns + 1] = "INFO" THEN <<>>
         ELSE <<Head(t)>> \o CutInfo(Tail(t))

\* re.sub(r"[LP RP \s]+$", "", t)
RECURSIVE StripParens(_)
StripParens(t) ==
    IF t # <<>> /\ t[Len(t)] \in ({"LP", "RP"} \cup Whitespace)
    THEN StripParens(Take(t, Len(t) - 1)) ELSE t

\* src/scrape.py 225-234.  driver.title holds no line break, so "." of the
\* patterns matches every character of it
_normalize_name_from_title(title) ==
    LET t0 == Strip(title)
        t1 == IF IsPrefixOf(SitePrefix, t0) THEN Drop(t0, 3) ELSE t0
        t2 == CutPriceInfo(t1)
        t3 == CutInfo(t2)
        t4 == StripParens(t3)
    IN  Strip(t4)

\* re.sub(r"LB[^RB]+RB\s*", "", t), src/fetch_april_properties.py 73
RECURSIVE RemoveBracketed(_)
RemoveBracketed(t) ==
    IF t = <<>> THEN <<>>
    ELSE LET inner == RunLen(Tail(t), {c \in {t[k] : k \in 1..Len(t)} : c # "RB"})
             after == Drop(t, inner + 1)
         IN  IF Head(t) = "LB" /\ inner > 0 /\ after # <<>> /\ Head(after) = "RB"
             THEN RemoveBracketed(LStrip(Tail(after)))
             ELSE <<Head(t)>> \o RemoveBracketed(Tail(t))

\* re.sub(PriceNote .*$, "", t), src/fetch_april_properties.py 74
RECURSIVE CutPrice(_)
CutPrice(t) ==
    IF t = <<>> THEN <<>>
    ELSE IF IsPrefixOf(PriceNote, t) THEN <<>>
    ELSE <<Head(t)>> \o CutPrice(Tail(t))

\* src/fetch_april_properties.py 72-74
AprilName(title) == CutPrice(RemoveBracketed(Strip(title)))

\* requests.utils.quote: the whitespace characters are percent-encoded
QuoteChar(c) ==
    CASE c = "SP" -> "%20" [] c = "IDEO" -> "%E3%80%80" [] c = "TAB" -> "%09"
      [] c = "LF" -> "%0A" [] c = "CR" -> "%0D" [] OTHER -> c

Quote(s) == [k \in 1..Len(s) |-> QuoteChar(s[k])]

----------------------------------------------------------------------------
(* The listing site and the sheet *)

FullTail == PriceNote \o <<"SP", "INFO">>

\* the text a detail page shows under its labels
FullBody ==
    [image_url |-> <<"img">>,
     raw_address |-> <<"t", "TAB", "k">>,
     raw_access |-> <<"s", "LF", "w">>,
     raw_layout |-> <<"FW2", "L", "D", "K", "DOT", "1", "K">>,
     raw_area |-> <<"7", "0", ".", "0", "SQM", "WAVE", "5", "SQM">>,
     text |-> <<>>]
BareBody ==
    [image_url |-> <<>>, raw_address |-> <<>>, raw_access |-> <<>>,
     raw_layout |-> <<>>, raw_area |-> <<>>,
     text |-> <<"ONEROOM", "SP", "5", "SP", "m">>]

\* the detail pages of the listing: title and body
SitePages ==
    { [title |-> SitePrefix \o <<"a">> \o FullTail, body |-> FullBody],
      [title |-> SitePrefix \o <<"b">> \o <<"SP", "INFO">>, body |-> BareBody],
      [title |-> SitePrefix \o <<"a", "IDEO", "SP", "b">> \o FullTail,
       body |-> FullBody],
      [title |-> SitePrefix \o <<"a", "SP", "b">>, body |-> BareBody],
      [title |-> <<"GOO">>, body |-> BareBody] }

\* a link of the listing: the page behind it and whether loading it fails
\* ("get": the page load raises; "detail": the detail extraction raises)
Links ==
    { [page |-> pg, fails |-> f] : pg \in SitePages, f \in {"no", "get", "detail"} }

\* src/fetch_april_properties.py has no detail extraction to fail
AprilLinks == { l \in Links : l.fails # "detail" }

Header ==
    << <<"date">>, <<"name">>, <<"bbs">>, <<"google">>, <<"official">>,
       <<"image">>, <<"address">>, <<"layout">>, <<"area">>, <<"access">> >>

Today == <<"TODAY">>

StoredRow(name, official) ==
    << Today, name, <<"BBS">> \o Quote(name), <<"GOOGLE">> \o Quote(name),
       official, <<>>, <<>>, <<>>, <<>>, <<>> >>

\* the sheets a run can start from: a header row and rows of distinct names
InitSheets ==
    { <<Header>>,
      <<Header, StoredRow(<<"a">>, <<>>)>>,
      <<Header, StoredRow(<<"a", "SP", "b">>, <<"x", ".co", ".jp">>)>> }

\* sheet.col_values(c): the cells of column c, "" where a row is shorter,
\* trailing empty cells dropped
RECURSIVE DropTrailingEmpty(_)
DropTrailingEmpty(col) ==
    IF col # <<>> /\ col[Len(col)] = <<>>
    THEN DropTrailingEmpty(Take(col, Len(col) - 1)) ELSE col

Cell(row, c) == IF Len(row) >= c THEN row[c] ELSE <<>>

col_values(sh, c) ==
    DropTrailingEmpty([r \in 1..Len(sh) |-> Cell(sh[r], c)])

\* sheet.col_values(2)[1:]
ExistingNames(sh) ==
    LET col == col_values(sh, 2) IN IF col = <<>> THEN <<>> ELSE Tail(col)

InSeq(x, s) == \E k \in 1..Len(s) : s[k] = x

----------------------------------------------------------------------------
(* src/scrape.py: main, fetch_property_infos, write_to_sheet *)

PipeIdle ==
    /\ sheet = <<Header>> /\ urls = <<>> /\ run = 0 /\ pc = "off" /\ idx = 1
    /\ properties = <<>> /\ seen_names = {} /\ existing = <<>>
    /\ rows_to_append = <<>> /\ new_count = 0 /\ outcome = <<>>
    /\ sheet0 = <<Header>> /\ failedRuns = {}

\* the sheet as it is before the first run, and the links the listing shows
PipeInitWith(links) ==
    /\ sheet \in InitSheets
    /\ urls \in SeqsUpTo(links, MaxBatch)
    /\ run = 0 /\ pc = "idle" /\ idx = 1
    /\ properties = <<>> /\ seen_names = {} /\ existing = <<>>
    /\ rows_to_append = <<>> /\ new_count = 0 /\ outcome = <<>>
    /\ sheet0 = sheet /\ failedRuns = {}

PipeInit == PipeInitWith(Links)

PipeOthers == <<sanVars, layVars, areaVars, urlVars>>

\* fetch_property_details, lines 192-218
fetch_property_details(body) ==
    [image_url |-> body.image_url,
     address |-> _sanitize_cell(Str(body.raw_address)),
     layout |-> _normalize_layout(
                    IF body.raw_layout # <<>> THEN body.raw_layout ELSE body.text),
     area |-> _normalize_area(
                    IF body.raw_area # <<>> THEN body.raw_area ELSE body.text),
     access |-> _sanitize_cell(Str(body.raw_access))]

\* line 263: the titles that give no record
SkipName(name, seen) == name = <<>> \/ Contains(name, "GOO") \/ name \in seen

\* a membership test that finds nothing
NeverIn(name, ex) == FALSE

\* line 326 and src/fetch_april_properties.py 114: name in existing
IsExisting(name, ex) == InSeq(name, ex)

\* lines 330-351
BuildRow(p, official_url) ==
    << Today,
       _sanitize_cell(Str(p.name)),
       _sanitize_cell(Str(<<"BBS">> \o Quote(p.name))),
       _sanitize_cell(Str(<<"GOOGLE">> \o Quote(p.name))),
       _sanitize_cell(Str(official_url)),
       _sanitize_cell(Str(p.image_url)),
       _sanitize_cell(Str(p.address)),
       _sanitize_cell(Str(_normalize_layout(p.layout))),
       _sanitize_cell(Str(_normalize_area(p.area))),
       _sanitize_cell(Str(p.access)) >>

\* line 351: row += [""] * (10 - len(row))
RECURSIVE PadRow(_)
PadRow(row) == IF Len(row) >= 10 THEN row ELSE PadRow(Append(row, <<>>))

\* main 363-366 and fetch_property_infos 236-255
ScrapeStart ==
    /\ pc = "idle" /\ run < MaxRuns
    /\ run' = run + 1
    /\ pc' = "fetch" /\ idx' = 1
    /\ properties' = <<>> /\ seen_names' = {}
    /\ existing' = <<>> /\ rows_to_append' = <<>> /\ new_count' = 0
    /\ outcome' = <<>> /\ sheet0' = sheet
    /\ UNCHANGED <<sheet, urls, failedRuns, PipeOthers>>

\* one iteration of the loop of lines 257-273
ScrapeFetchPage ==
    /\ pc = "fetch" /\ idx <= Len(urls)
    /\ LET link == urls[idx]
           name == _normalize_name_from_title(link.page.title)
       IN  IF link.fails = "get" \/ SkipName(name, seen_names)
              \/ link.fails = "detail"
           THEN UNCHANGED <<properties, seen_names>>
           ELSE /\ properties' =
                      Append(properties,
                             [name |-> name, detail_url |-> idx]
                             @@ fetch_property_details(link.page.body))
                /\ seen_names' = seen_names \cup {name}
    /\ idx' = idx + 1
    /\ UNCHANGED <<sheet, urls, run, pc, existing, rows_to_append, new_count,
                   outcome, sheet0, failedRuns, PipeOthers>>

\* lines 275-279, main 367-370, write_to_sheet 308-317
ScrapeFetchDone ==
    /\ pc = "fetch" /\ idx > Len(urls)
    /\ IF properties = <<>>
       THEN pc' = "idle" /\ UNCHANGED <<existing, idx>>
       ELSE pc' = "write" /\ existing' = ExistingNames(sheet) /\ idx' = 1
    /\ UNCHANGED <<sheet, urls, run, properties, seen_names, rows_to_append,
                   new_count, outcome, sheet0, failedRuns, PipeOthers>>

\* one iteration of the loop of lines 319-353
ScrapeWriteRecord ==
    /\ pc = "write" /\ idx <= Len(properties)
    /\ LET p == properties[idx] IN
       IF IsExisting(p.name, existing)
       THEN /\ outcome' = Append(outcome, "skip")
            /\ UNCHANGED <<rows_to_append, new_count>>
       ELSE \E official_url \in OfficialUrlChoices :
               /\ rows_to_append' =
                      Append(rows_to_append, PadRow(BuildRow(p, official_url)))
               /\ new_count' = new_count + 1
               /\ outcome' = Append(outcome, "insert")
    /\ idx' = idx + 1
    /\ UNCHANGED <<sheet, urls, run, pc, properties, seen_names, existing,
                   sheet0, failedRuns, PipeOthers>>

\* lines 355-359: append_rows succeeds, or there is nothing to append
ScrapeAppendRows ==
    /\ pc = "write" /\ idx > Len(properties)
    /\ sheet' = sheet \o rows_to_append
    /\ pc' = "idle"
    /\ UNCHANGED <<urls, run, idx, properties, seen_names, existing,
                   rows_to_append, new_count, outcome, sheet0, failedRuns,
                   PipeOthers>>

\* line 357 raises; main 371-373 prints the traceback and the run ends
ScrapeAppendRowsFails ==
    /\ pc = "write" /\ idx > Len(properties) /\ rows_to_append # <<>>
    /\ failedRuns' = failedRuns \cup {run}
    /\ pc' = "idle"
    /\ UNCHANGED <<sheet, urls, run, idx, properties, seen_names, existing,
                   rows_to_append, new_count, outcome, sheet0, PipeOthers>>

----------------------------------------------------------------------------
(* src/fetch_april_properties.py: main, extract_property_names,            *)
(* write_to_sheet                                                          *)

\* lines 116-119: the row of append_row
AprilRow(name, official_url) ==
    << Today, name, <<"BBS">> \o name, <<"GOOGLE">> \o name, official_url >>

\* main 126-130
AprilStart ==
    /\ pc = "idle" /\ run < MaxRuns
    /\ run' = run + 1
    /\ pc' = "extract" /\ idx' = 1
    /\ properties' = <<>>
    /\ existing' = <<>> /\ new_count' = 0
    /\ outcome' = <<>> /\ sheet0' = sheet
    /\ UNCHANGED <<sheet, urls, seen_names, rows_to_append, failedRuns,
                   PipeOthers>>

\* one iteration of the loop of lines 66-79
AprilExtract ==
    /\ pc = "extract" /\ idx <= Len(urls)
    /\ LET link == urls[idx]
           title == AprilName(link.page.title)
       IN  IF link.fails = "get" \/ title = <<>>
           THEN UNCHANGED properties
           ELSE properties' =
                    Append(properties, [name |-> title, detail_url |-> idx])
    /\ idx' = idx + 1
    /\ UNCHANGED <<sheet, urls, run, pc, seen_names, existing, rows_to_append,
                   new_count, outcome, sheet0, failedRuns, PipeOthers>>

\* line 80, main 131, write_to_sheet 104-111
AprilExtractDone ==
    /\ pc = "extract" /\ idx > Len(urls)
    /\ pc' = "write" /\ existing' = ExistingNames(sheet) /\ idx' = 1
    /\ UNCHANGED <<sheet, urls, run, properties, seen_names, rows_to_append,
                   new_count, outcome, sheet0, failedRuns, PipeOthers>>

\* one iteration of the loop of lines 113-121
AprilWriteRecord ==
    /\ pc = "write" /\ idx <= Len(properties)
    /\ LET name == properties[idx].name IN
       IF IsExisting(name, existing)
       THEN /\ outcome' = Append(outcome, "skip")
            /\ UNCHANGED <<sheet, new_count>>
       ELSE \E official_url \in OfficialUrlChoices :
               /\ sheet' = Append(sheet, AprilRow(name, official_url))
               /\ new_count' = new_count + 1
               /\ outcome' = Append(outcome, "insert")
    /\ idx' = idx + 1
    /\ UNCHANGED <<urls, run, pc, properties, seen_names, existing,
                   rows_to_append, sheet0, failedRuns, PipeOthers>>

\* line 119 raises; main 132-133 prints the traceback and the run ends
AprilWriteFails ==
    /\ pc = "write" /\ idx <= Len(properties)
    /\ ~IsExisting(properties[idx].name, existing)
    /\ failedRuns' = failedRuns \cup {run}
    /\ pc' = "idle"
    /\ UNCHANGED <<sheet, urls, run, idx, properties, seen_names, existing,
                   rows_to_append, new_count, outcome, sheet0, PipeOthers>>

\* line 123
AprilWriteDone ==
    /\ pc = "write" /\ idx > Len(properties)
    /\ pc' = "idle"
    /\ UNCHANGED <<sheet, urls, run, idx, properties, seen_names, existing,
                   rows_to_append, new_count, outcome, sheet0, failedRuns,
                   PipeOthers>>

----------------------------------------------------------------------------
(* Specifications *)

SanitizeInit == SanInit /\ LayIdle /\ AreaIdle /\ UrlIdle /\ PipeIdle
SanitizeNext == SanitizeOnce \/ SanitizeAgain
SpecSanitize == SanitizeInit /\ [][SanitizeNext]_vars

LayoutInit == SanIdle /\ LayInit /\ AreaIdle /\ UrlIdle /\ PipeIdle
LayoutNext == NormalizeLayout
SpecLayout == LayoutInit /\ [][LayoutNext]_vars

AreaSpecInit == SanIdle /\ LayIdle /\ AreaInit /\ UrlIdle /\ PipeIdle
AreaNext == NormalizeArea \/ WriteAreaCell
SpecArea == AreaSpecInit /\ [][AreaNext]_vars

OfficialUrlInit == SanIdle /\ LayIdle /\ AreaIdle /\ UrlInit /\ PipeIdle
OfficialUrlNext ==
    \/ UrlNextAttempt \/ UrlExhausted \/ UrlGet \/ Url429
    \/ UrlRaiseForStatus \/ UrlPick \/ UrlExcept
SpecOfficialUrl == OfficialUrlInit /\ [][OfficialUrlNext]_vars

\* get_official_url is sequential code: once requests.get has answered (or
\* raised) and time.sleep has returned, the next statement runs
FairSpecOfficialUrl == SpecOfficialUrl /\ WF_vars(OfficialUrlNext)

ScrapeInit == SanIdle /\ LayIdle /\ AreaIdle /\ UrlIdle /\ PipeInit
ScrapeNext ==
    \/ ScrapeStart \/ ScrapeFetchPage \/ ScrapeFetchDone
    \/ ScrapeWriteRecord \/ ScrapeAppendRows \/ ScrapeAppendRowsFails
SpecScrape == ScrapeInit /\ [][ScrapeNext]_vars

AprilInit ==
    SanIdle /\ LayIdle /\ AreaIdle /\ UrlIdle /\ PipeInitWith(AprilLinks)
AprilNext ==
    \/ AprilStart \/ AprilExtract \/ AprilExtractDone
    \/ AprilWriteRecord \/ AprilWriteFails \/ AprilWriteDone
SpecApril == AprilInit /\ [][AprilNext]_vars

----------------------------------------------------------------------------
(* Properties *)

NameColumn(sh) == [r \in 1..(Len(sh) - 1) |-> Cell(sh[r + 1], 2)]

\* C1: the sheet never holds two data rows with the same name, whatever
\* the runs and the batches were.
NoDuplicateNames ==
    \A i, j \in 1..Len(NameColumn(sheet)) :
        i # j => NameColumn(sheet)[i] # NameColumn(sheet)[j]

\* C2: a second run on the same batch, after a first run whose write went
\* through, inserts nothing: new_count is 0 and the sheet is as the first
\* run left it.
SecondRunInsertsNothing ==
    (pc = "idle" /\ run >= 2 /\ failedRuns = {})
        => (new_count = 0 /\ sheet = sheet0)

\* the official-URL cell of the stored row of this name
StoredOfficial(sh, name) ==
    Cell(sh[CHOOSE r \in 2..Len(sh) : Cell(sh[r], 2) = name], 5)

RECURSIVE Inserted(_, _)
Inserted(out, k) ==
    IF k = 0 THEN 0
    ELSE Inserted(out, k - 1) + (IF out[k] = "insert" THEN 1 ELSE 0)

RECURSIVE Count(_, _)
Count(s, x) ==
    IF s = <<>> THEN 0 ELSE (IF Head(s) = x THEN 1 ELSE 0) + Count(Tail(s), x)

\* at most 3 requests; one sleep after every 429; a return only after an
\* answer other than 429 or after the third attempt; no exception leaves
BoundedRetry ==
    /\ Len(responses) <= 3
    /\ sleeps = Count(responses, 429)
                - (IF upc = "status" /\ res.status = 429 THEN 1 ELSE 0)
    /\ upc = "done" =>
          /\ result.done /\ ~result.raised
          /\ Len(responses) < 3 =>
                (responses # <<>> /\ responses[Len(responses)] # 429)
          /\ responses = <<429, 429, 429>> => result.value = <<>>
    /\ upc # "done" => ~result.done

\* C4: whatever the search API answers, get_official_url terminates after
\* at most 3 requests, sleeps after every 429 and tries again while attempts
\* remain, returns without raising, and returns the empty string when all 3
\* attempts were answered 429.
OfficialUrlBoundedRetry == []BoundedRetry /\ <>(upc = "done")

OfficialUrlExhaustedWitness ==
    /\ upc = "done" /\ responses = <<429, 429, 429>> /\ sleeps = 3
    /\ result = Returned(<<>>)

\* C5: when one record's write fails, every other new record of the batch
\* is in the sheet at the end of the run.
WriteFailureKeepsOthers ==
    (pc = "idle" /\ run \in failedRuns) =>
        \A k \in 1..Len(properties) :
            (k # idx /\ ~InSeq(properties[k].name, existing))
                => InSeq(properties[k].name, NameColumn(sheet))

\* C6: every row of the sheet has exactly 10 cells.
RowsHaveTenCells == \A r \in 1..Len(sheet) : Len(sheet[r]) = 10

\* the (number, type) pairs the pattern finds in the raw text, the type
\* named by its room type whatever the letter case it was written in
FoundPairs(raw) ==
    LET hits == LayoutHits(ReplaceChar(raw, "IDEO", "SP"))
    IN  {[n |-> ToInt(hits[k].num), t |-> FoldStr(hits[k].typ)] :
            k \in 1..Len(hits)}

RoomRank(t) ==
    CASE t = <<"R">> -> 0 [] t = <<"K">> -> 1 [] t = <<"D", "K">> -> 2
      [] t = <<"L", "D", "K">> -> 3

PairBefore(a, b) ==
    a.n < b.n \/ (a.n = b.n /\ RoomRank(a.t) < RoomRank(b.t))

\* the pairs of S, each once, ascending by count and then by rank
Ascending(S) ==
    CHOOSE s \in [1..Cardinality(S) -> S] :
        \A i, j \in 1..Cardinality(S) : i < j => PairBefore(s[i], s[j])

\* C7: when the raw text holds at least one pair the result is the pairs
\* found, each once, ascending by count and then by rank R < K < DK < LDK,
\* joined by the middle dot; when it holds none the result is the studio
\* word if the text contains it and the empty string otherwise.  The
\* result is read as the pattern reads the input: a type letter counts for
\* its room type in whatever form it is written.
LayoutSortedUnique ==
    lpc = "done" =>
        IF FoundPairs(lraw) # {}
        THEN LET s == Ascending(FoundPairs(lraw)) IN
             FoldStr(lout) = Join([k \in 1..Len(s) |-> IntToStr(s[k].n) \o s[k].t],
                         <<"DOT">>)
        ELSE lout = (IF Contains(lraw, "ONEROOM") THEN <<"ONEROOM">> ELSE <<>>)

IsNumber(s) ==
    /\ s # <<>>
    /\ \A k \in 1..Len(s) : s[k] \in Digits \cup {"."}
    /\ s[1] \in Digits /\ s[Len(s)] \in Digits
    /\ Count(s, ".") <= 1

IsValue(s, unit) ==
    /\ Len(s) > Len(unit)
    /\ Drop(s, Len(s) - Len(unit)) = unit
    /\ IsNumber(Take(s, Len(s) - Len(unit)))

\* a single value or a min-max range, every number followed by the unit
IsAreaForm(s, unit) ==
    \/ IsValue(s, unit)
    \/ \E k \in 1..Len(s) :
          /\ s[k] = "WAVE"
          /\ IsValue(Take(s, k - 1), unit)
          /\ IsValue(Drop(s, k), unit)

\* C8 as stated: every non-empty result of the area normaliser, and every
\* area cell written, carries the one-character unit sign after each number.
AreaUnitIsSquareMetreSign ==
    /\ (apc # "start" /\ aout # <<>>) => IsAreaForm(aout, <<"SQM">>)
    /\ (apc = "written" /\ acell # <<>>) => IsAreaForm(acell, <<"SQM">>)

\* C8: every non-empty result of the area normaliser, and every area cell
\* written, is a number or a min-max range whose numbers are each followed
\* by the ASCII unit "m2": never the unit sign, the superscript form, "m^2"
\* or a bare "m", whichever notation the raw text used.
AreaUnitIsM2 ==
    /\ (apc # "start" /\ aout # <<>>) => IsAreaForm(aout, M2)
    /\ (apc = "written" /\ acell # <<>>) => IsAreaForm(acell, M2)

AreaWitness ==
    /\ apc = "written"
    /\ Contains(araw, "SQM") /\ Contains(araw, "^")
    /\ Contains(aout, "WAVE") /\ acell = aout

\* C9: sanitising is idempotent, gives the empty string for an absent
\* value, and its result holds no tab, CR or LF, no two whitespace
\* characters in a row, and no whitespace at either end.
SanitizeIdempotentClean ==
    /\ spc # "start" =>
          /\ sx.isNone => sy = <<>>
          /\ \A k \in 1..Len(sy) : sy[k] \notin {"TAB", "CR", "LF"}
          /\ \A k \in 1..(Len(sy) - 1) : ~(IsSpace(sy[k]) /\ IsSpace(sy[k + 1]))
          /\ sy # <<>> => (~IsSpace(sy[1]) /\ ~IsSpace(sy[Len(sy)]))
    /\ spc = "twice" => sz = sy

SanitizeWitness ==
    /\ spc = "twice" /\ ~sx.isNone
    /\ sx.str # <<>> /\ IsSpace(sx.str[1]) /\ Contains(sx.str, "TAB")
    /\ Len(sy) >= 2 /\ Len(sy) < Len(sx.str)

\* C10: the records handed to the write step are in the order of their
\* links and no two of them have the same name.
FirstOccurrenceWins ==
    pc = "write" =>
        \A i, j \in 1..Len(properties) :
            i < j => /\ properties[i].detail_url < properties[j].detail_url
                     /\ properties[i].name # properties[j].name

====
